---- MODULE Spec2Model ----
(***************************************************************************)
(* A model of src/main.py: the natural-language-to-SQL service.            *)
(*                                                                         *)
(*   llm_generate_sql  the completion's code fences are stripped           *)
(*   sanitize_sql      mutation guard, shape guard, identifier fixes,      *)
(*                     row cap                                             *)
(*   nlq               generate -> sanitize -> execute on a fresh          *)
(*                     connection                                          *)
(*                                                                         *)
(* SQL text is a TLA+ string; Len, \o and SubSeq act on its characters.    *)
(* The regular expressions of the source are computed character by         *)
(* character over the ASCII range (Python's Unicode case folding of        *)
(* non-ASCII letters is outside the alphabet of the inputs).               *)
(***************************************************************************)
EXTENDS Integers, Sequences, FiniteSets, TLC

VARIABLES
    raw,        \* sanitize_sql: its argument
    res,        \* sanitize_sql: its outcome on raw (a record, see Raise/Return)
    res2,       \* sanitize_sql applied a second time, to res.sql
    phase,      \* position of the pure-function runs: "input", "done", "again"
    completion, \* llm_generate_sql: the parts of the completion text
    generated,  \* llm_generate_sql: the string it returns
    pc,         \* nlq: each request's position in the handler
    sql,        \* nlq: each request's local variable sql
    genout,     \* nlq: what llm_generate_sql returned to the request
    conn,       \* nlq: each request's database connection
    response,   \* nlq: what the request ended with
    hist,       \* nlq: per request, how often each stage ran and what was run
    served      \* number of requests accepted so far

vars == <<raw, res, res2, phase, completion, generated,
          pc, sql, genout, conn, response, hist, served>>

sanVars == <<raw, res, res2, phase>>
genVars == <<completion, generated>>
nlqVars == <<pc, sql, genout, conn, response, hist, served>>

-----------------------------------------------------------------------------
(* Bounds of the model.                                                    *)

MaxChunks == 3
MaxFenceChunks == 3
MaxRequests == 2
MaxServed == 2

-----------------------------------------------------------------------------
(* Characters and strings.                                                 *)

UpperAlpha == "ABCDEFGHIJKLMNOPQRSTUVWXYZ"
LowerAlpha == "abcdefghijklmnopqrstuvwxyz"
Digits == "0123456789"

CharsOf(s) == { SubSeq(s, i, i) : i \in 1..Len(s) }

UpperChars == CharsOf(UpperAlpha)
LowerChars == CharsOf(LowerAlpha)
DigitChars == CharsOf(Digits)

\* [a-zA-Z]
AsciiLetters == UpperChars \cup LowerChars

\* \w of a str pattern, over the ASCII range
WordChars == AsciiLetters \cup DigitChars \cup {"_"}

\* what str.strip() removes, over the ASCII range
WhiteSpace == {" ", "\n", "\t", "\r", "\f"}

lowerOf == [c \in UpperChars |->
              SubSeq(LowerAlpha, CHOOSE i \in 1..26 : SubSeq(UpperAlpha, i, i) = c,
                                 CHOOSE i \in 1..26 : SubSeq(UpperAlpha, i, i) = c)]

LowerChar(c) == IF c \in UpperChars THEN lowerOf[c] ELSE c

RECURSIVE ToLower(_)
ToLower(s) == IF s = "" THEN ""
              ELSE LowerChar(SubSeq(s, 1, 1)) \o ToLower(SubSeq(s, 2, Len(s)))

CharAt(s, i) == IF i >= 1 /\ i <= Len(s) THEN SubSeq(s, i, i) ELSE ""

\* \b between the characters i-1 and i of s (i in 1..Len(s)+1)
WordBoundary(s, i) == (CharAt(s, i - 1) \in WordChars) # (CharAt(s, i) \in WordChars)

\* pat matches literally at position i of s
MatchAt(s, i, pat) ==
    /\ i + Len(pat) - 1 <= Len(s)
    /\ SubSeq(s, i, i + Len(pat) - 1) = pat

\* \bpat\b matches literally at position i of s; the match is looked for in
\* l, the boundaries in s (l is s, or s with its case folded)
WordMatchAt(s, l, i, pat) ==
    /\ MatchAt(l, i, pat)
    /\ WordBoundary(s, i)
    /\ WordBoundary(s, i + Len(pat))

\* re.search(r"\b(p1|p2|...)\b", s, re.I) finds a match: re.I folds the case
\* of the text and of the patterns
SearchWordI(pats, s) ==
    LET l == ToLower(s)
        folded == { ToLower(p) : p \in pats }
    IN  \E i \in 1..Len(s) : \E p \in folded : WordMatchAt(s, l, i, p)

RECURSIVE LStrip(_)
LStrip(s) == IF s # "" /\ SubSeq(s, 1, 1) \in WhiteSpace
             THEN LStrip(SubSeq(s, 2, Len(s))) ELSE s

RECURSIVE RStrip(_)
RStrip(s) == IF s # "" /\ SubSeq(s, Len(s), Len(s)) \in WhiteSpace
             THEN RStrip(SubSeq(s, 1, Len(s) - 1)) ELSE s

\* str.strip()
Strip(s) == RStrip(LStrip(s))

\* str.rstrip(";")
RECURSIVE RStripSemi(_)
RStripSemi(s) == IF s # "" /\ SubSeq(s, Len(s), Len(s)) = ";"
                 THEN RStripSemi(SubSeq(s, 1, Len(s) - 1)) ELSE s

\* re.sub(bad, good, s, flags=re.I) for a literal pattern bad: the matches are
\* found from the left in the case-folded text l, they do not overlap, and
\* each is replaced by good; every other character of s is kept
RECURSIVE SubFrom(_, _, _, _, _)
SubFrom(bad, good, s, l, i) ==
    IF i > Len(s) THEN ""
    ELSE IF MatchAt(l, i, bad)
         THEN good \o SubFrom(bad, good, s, l, i + Len(bad))
         ELSE SubSeq(s, i, i) \o SubFrom(bad, good, s, l, i + 1)

SubI(bad, good, s) == SubFrom(ToLower(bad), good, s, ToLower(s), 1)

-----------------------------------------------------------------------------
(* sanitize_sql                                                            *)

DANGEROUS == {"INSERT", "UPDATE", "DELETE", "DROP", "ALTER", "TRUNCATE",
              "CREATE", "GRANT", "REVOKE"}

\* the dict fixes, in insertion order
fixes == << <<"vendorid", "\"vendorId\"">>,
            <<"invoiceid", "\"invoiceId\"">>,
            <<"customerid", "\"customerId\"">>,
            <<"paymentid", "\"paymentId\"">>,
            <<"totalamount", "\"totalAmount\"">>,
            <<"totalvalue", "\"totalValue\"">>,
            <<"invoicedate", "\"invoiceDate\"">> >>

\* for bad, good in fixes.items(): sql = re.sub(bad, good, sql, flags=re.I)
RECURSIVE ApplyFixes(_, _)
ApplyFixes(s, k) ==
    IF k > Len(fixes) THEN s
    ELSE ApplyFixes(SubI(fixes[k][1], fixes[k][2], s), k + 1)

HasDangerous(s) == SearchWordI(DANGEROUS, s)

\* the shape guard without its \b: SELECT found inside a longer word
HasSelectAnywhere(s) == \E i \in 1..Len(s) : MatchAt(ToLower(s), i, "select")

HasSelect(s) == SearchWordI({"SELECT"}, s)
HasLimit(s) == SearchWordI({"LIMIT"}, s)

Raise(status, detail) == [ok |-> FALSE, status |-> status, detail |-> detail, sql |-> ""]
Return(s) == [ok |-> TRUE, status |-> 200, detail |-> "", sql |-> s]

UnsafeDetail == "Unsafe SQL blocked. Only SELECT allowed."
InvalidDetail == "Only SELECT queries are allowed."

\* the row cap appended whether or not a LIMIT is there
AddLimitAlways(s) == RStripSemi(Strip(s)) \o " LIMIT 500"

AddLimit(s) == IF ~HasLimit(s) THEN RStripSemi(Strip(s)) \o " LIMIT 500" ELSE s

\* the two guards in the other order
sanitize_sql_shape_first(s) ==
    IF ~HasSelect(s) THEN Raise(400, InvalidDetail)
    ELSE IF HasDangerous(s) THEN Raise(400, UnsafeDetail)
    ELSE Return(AddLimit(ApplyFixes(s, 1)))

sanitize_sql(s) ==
    IF HasDangerous(s) THEN Raise(400, UnsafeDetail)
    ELSE IF ~HasSelect(s) THEN Raise(400, InvalidDetail)
    ELSE Return(AddLimit(ApplyFixes(s, 1)))

-----------------------------------------------------------------------------
(* llm_generate_sql: what it does to the completion text                   *)

\* the character U+0060
Backtick == SubSeq("`'", 1, 1)
Fence == Backtick \o Backtick \o Backtick

RECURSIVE DropLetters(_)
DropLetters(s) == IF s # "" /\ SubSeq(s, 1, 1) \in AsciiLetters
                  THEN DropLetters(SubSeq(s, 2, Len(s))) ELSE s

\* re.sub of an opening fence and the letters [a-zA-Z]* after it by "": ^ is
\* the start of the string, * is greedy
SubOpenFence(s) == IF MatchAt(s, 1, Fence) THEN DropLetters(SubSeq(s, 4, Len(s))) ELSE s

\* re.sub of a closing fence by "": $ is the end of the string, or the place before a
\* newline that ends the string
SubCloseFence(s) ==
    LET n == Len(s) IN
    IF n >= 3 /\ SubSeq(s, n - 2, n) = Fence THEN SubSeq(s, 1, n - 3)
    ELSE IF n >= 4 /\ SubSeq(s, n - 3, n - 1) = Fence /\ SubSeq(s, n, n) = "\n"
         THEN SubSeq(s, 1, n - 4) \o "\n"
         ELSE s

StripFences(content) == Strip(SubCloseFence(Strip(SubOpenFence(Strip(content)))))

-----------------------------------------------------------------------------
(* The inputs of the pure functions.                                       *)

RECURSIVE ChunkStrings(_, _)
ChunkStrings(C, n) ==
    IF n = 0 THEN {""}
    ELSE LET S == ChunkStrings(C, n - 1) IN S \cup { s \o c : s \in S, c \in C }

SqlChunks == {"SELECT ", "select", " ", ";", "drop", "limit", "LIMIT 5",
              "vendorid", "x", "'"}

Capitalized(k) == SubSeq(k, 1, 1) \o ToLower(SubSeq(k, 2, Len(k)))

KeywordSpellings == UNION { {k, ToLower(k), Capitalized(k)} : k \in DANGEROUS }

\* a blocked keyword in every position: alone, after a SELECT, in a string
\* literal, in a comment, inside a longer identifier
KeywordInputs ==
    { p \o k \o q : p \in {"", "SELECT ", "select 1; ", "SELECT '", "SELECT 1 -- ", "SELECT x", "SELECT x_"},
                    k \in KeywordSpellings,
                    q \in {"", " t", "' LIMIT 5", "x", ";"} }

FixSpellings ==
    UNION { {fixes[k][1], SubSeq(fixes[k][2], 2, Len(fixes[k][2]) - 1), fixes[k][2]}
            : k \in 1..Len(fixes) }

FixInputs ==
    { p \o f \o q : p \in {"SELECT ", "\nselect t.", "SELECT limit"},
                    f \in FixSpellings,
                    q \in {"", " FROM t;", " FROM t ;\n", " limit 10;", "limit"} }

SanInputs == ChunkStrings(SqlChunks, MaxChunks) \cup KeywordInputs \cup FixInputs

FenceChunks == {"SELECT", " ", "1", Backtick, "\n"}

Bodies == ChunkStrings(FenceChunks, MaxFenceChunks)

Completions ==
    [lead : {"", "\n"}, fenced : {TRUE}, tag : {"", "sql"}, sep : {"", "\n", " "},
     body : Bodies, sep2 : {"", "\n"}, trail : {"", " "}]
    \cup
    [lead : {"", "\n"}, fenced : {FALSE}, tag : {""}, sep : {""},
     body : Bodies, sep2 : {""}, trail : {"", " "}]

\* the completion text, r.json()["choices"][0]["message"]["content"]
Content(c) ==
    c.lead \o (IF c.fenced THEN Fence \o c.tag \o c.sep ELSE "")
           \o c.body
           \o (IF c.fenced THEN c.sep2 \o Fence ELSE "") \o c.trail

-----------------------------------------------------------------------------
(* The state outside a run.                                                *)

None == "-"
NoResult == [ok |-> FALSE, status |-> 0, detail |-> None, sql |-> None]
NoCompletion == [lead |-> "", fenced |-> FALSE, tag |-> "", sep |-> "",
                 body |-> None, sep2 |-> "", trail |-> ""]

Requests == 1..MaxRequests

NoConn == [open |-> FALSE, timeout |-> 0, readOnly |-> FALSE]
NoResponse == [status |-> 0, detail |-> None, sql |-> None]
NoHist == [gen |-> 0, san |-> 0, sanIn |-> None, sanOut |-> NoResult,
           connects |-> 0, opened |-> 0, closed |-> 0,
           execs |-> <<>>, failed |-> None]

SanIdle == raw = None /\ res = NoResult /\ res2 = NoResult /\ phase = "input"
GenIdle == completion = NoCompletion /\ generated = None
NlqIdle ==
    /\ pc = [r \in Requests |-> "idle"]
    /\ sql = [r \in Requests |-> None]
    /\ genout = [r \in Requests |-> None]
    /\ conn = [r \in Requests |-> NoConn]
    /\ response = [r \in Requests |-> NoResponse]
    /\ hist = [r \in Requests |-> NoHist]
    /\ served = 0

-----------------------------------------------------------------------------
(* sanitize_sql as a run: once on raw, then once more on what it returned. *)

SanInit ==
    /\ raw \in SanInputs
    /\ res = NoResult /\ res2 = NoResult /\ phase = "input"
    /\ GenIdle /\ NlqIdle

Sanitize ==
    /\ phase = "input"
    /\ res' = sanitize_sql(raw)
    /\ phase' = "done"
    /\ UNCHANGED <<raw, res2, genVars, nlqVars>>

Resanitize ==
    /\ phase = "done" /\ res.ok
    /\ res2' = sanitize_sql(res.sql)
    /\ phase' = "again"
    /\ UNCHANGED <<raw, res, genVars, nlqVars>>

SanNext == Sanitize \/ Resanitize

SanSpec == SanInit /\ [][SanNext]_vars

-----------------------------------------------------------------------------
(* llm_generate_sql as a run on one completion.                            *)

GenInit ==
    /\ completion \in Completions
    /\ generated = None
    /\ SanIdle /\ NlqIdle

LlmGenerate ==
    /\ generated = None
    /\ generated' = StripFences(Content(completion))
    /\ UNCHANGED <<completion, sanVars, nlqVars>>

GenNext == LlmGenerate

GenSpec == GenInit /\ [][GenNext]_vars

-----------------------------------------------------------------------------
(* nlq: the handler of POST /nlq.  FastAPI runs a def endpoint on a worker *)
(* thread, so requests interleave; each has its own locals and its own     *)
(* connection.                                                             *)

StatementTimeout == 8000

\* completions the provider may return
NlqCompletions ==
    { Fence \o "sql\nSELECT vendorid\n" \o Fence,
      "SELECT 1 LIMIT 5;",
      "DROP TABLE t",
      " \n",
      Fence \o "SELECT 1" \o Fence }

GroqDetail == "Groq error"
ServerErrorDetail == "Internal Server Error"
SqlErrorDetail == "SQL error"

HTTPException(status, detail) == [status |-> status, detail |-> detail, sql |-> None]

Bump(h, stage) == [h EXCEPT ![stage] = @ + 1]
Sanitized(h, in, out) == [Bump(h, "san") EXCEPT !.sanIn = in, !.sanOut = out]

\* leaving the block  with psycopg.connect(...) as conn  without closing
ExitWithLeak(c) == c

\* leaving the block  with psycopg.connect(...) as conn: the connection is closed
ExitWith(c) == [c EXCEPT !.open = FALSE]

\* a request arrives on a free worker
Receive(r) ==
    /\ pc[r] = "idle"
    /\ served < MaxServed
    /\ served' = served + 1
    /\ pc' = [pc EXCEPT ![r] = "generate"]
    /\ UNCHANGED <<sql, genout, response, hist, conn, sanVars, genVars>>

\* sql = llm_generate_sql(q.question), the provider answering below 400
LlmReturns(r) ==
    /\ pc[r] = "generate"
    /\ \E c \in NlqCompletions :
          /\ genout' = [genout EXCEPT ![r] = StripFences(c)]
          /\ sql' = [sql EXCEPT ![r] = StripFences(c)]
    /\ hist' = [hist EXCEPT ![r] = Bump(@, "gen")]
    /\ pc' = [pc EXCEPT ![r] = "sanitize"]
    /\ UNCHANGED <<conn, response, served, sanVars, genVars>>

\* llm_generate_sql raises: a status of 400 or more (HTTPException 500), or
\* requests.post or the decoding of the body fails (the framework's 500)
LlmFails(r) ==
    /\ pc[r] = "generate"
    /\ \E d \in {GroqDetail, ServerErrorDetail} :
          response' = [response EXCEPT ![r] = HTTPException(500, d)]
    /\ hist' = [hist EXCEPT ![r] = [Bump(@, "gen") EXCEPT !.failed = "generate"]]
    /\ pc' = [pc EXCEPT ![r] = "done"]
    /\ UNCHANGED <<sql, genout, conn, served, sanVars, genVars>>

\* sql = sanitize_sql(sql), with a rejected statement passed on unchanged
SanitizeStepLenient(r) ==
    /\ pc[r] = "sanitize"
    /\ LET out == sanitize_sql(sql[r]) IN
          /\ sql' = [sql EXCEPT ![r] = IF out.ok THEN out.sql ELSE @]
          /\ pc' = [pc EXCEPT ![r] = "connect"]
          /\ hist' = [hist EXCEPT ![r] = Sanitized(@, sql[r], out)]
          /\ UNCHANGED response
    /\ UNCHANGED <<genout, conn, served, sanVars, genVars>>

\* sql = sanitize_sql(sql): its HTTPException ends the request
SanitizeStep(r) ==
    /\ pc[r] = "sanitize"
    /\ LET out == sanitize_sql(sql[r]) IN
          IF out.ok
          THEN /\ sql' = [sql EXCEPT ![r] = out.sql]
               /\ pc' = [pc EXCEPT ![r] = "connect"]
               /\ hist' = [hist EXCEPT ![r] = Sanitized(@, sql[r], out)]
               /\ UNCHANGED response
          ELSE /\ response' = [response EXCEPT ![r] = HTTPException(out.status, out.detail)]
               /\ pc' = [pc EXCEPT ![r] = "done"]
               /\ hist' = [hist EXCEPT ![r] =
                              [Sanitized(@, sql[r], out) EXCEPT !.failed = "sanitize"]]
               /\ UNCHANGED sql
    /\ UNCHANGED <<genout, conn, served, sanVars, genVars>>

\* an exception inside the try block: the with block is left, and
\* except Exception turns it into HTTPException(400, "SQL error: ...")
Fail(r) ==
    /\ conn' = [conn EXCEPT ![r] = IF @.open THEN ExitWith(@) ELSE @]
    /\ response' = [response EXCEPT ![r] = HTTPException(400, SqlErrorDetail)]
    /\ pc' = [pc EXCEPT ![r] = "done"]

\* psycopg.connect(DATABASE_URL, options="-c statement_timeout=8000")
Connect(r) ==
    /\ pc[r] = "connect"
    /\ \/ /\ conn' = [conn EXCEPT ![r] = [open |-> TRUE, timeout |-> StatementTimeout,
                                          readOnly |-> FALSE]]
          /\ pc' = [pc EXCEPT ![r] = "set_read_only"]
          /\ hist' = [hist EXCEPT ![r] = Bump(Bump(@, "connects"), "opened")]
          /\ UNCHANGED response
       \/ /\ Fail(r)
          /\ hist' = [hist EXCEPT ![r] = [Bump(@, "connects") EXCEPT !.failed = "connect"]]
    /\ UNCHANGED <<sql, genout, served, sanVars, genVars>>

\* conn.execute("SET TRANSACTION READ ONLY;"), a failure of it swallowed
SetReadOnlyUnchecked(r) ==
    /\ pc[r] = "set_read_only"
    /\ \E done \in BOOLEAN : conn' = [conn EXCEPT ![r].readOnly = done]
    /\ pc' = [pc EXCEPT ![r] = "execute"]
    /\ UNCHANGED <<sql, genout, response, hist, served, sanVars, genVars>>

\* conn.execute("SET TRANSACTION READ ONLY;")
SetReadOnly(r) ==
    /\ pc[r] = "set_read_only"
    /\ \/ /\ conn' = [conn EXCEPT ![r].readOnly = TRUE]
          /\ pc' = [pc EXCEPT ![r] = "execute"]
          /\ UNCHANGED <<response, hist>>
       \/ /\ Fail(r)
          /\ hist' = [hist EXCEPT ![r] = [Bump(@, "closed") EXCEPT !.failed = "set_read_only"]]
    /\ UNCHANGED <<sql, genout, served, sanVars, genVars>>

\* cur.execute(sql), then cols and rows are read; the statement may fail or
\* run into the statement timeout
Execute(r) ==
    /\ pc[r] = "execute"
    /\ LET ran == [sql |-> sql[r], readOnly |-> conn[r].readOnly,
                   timeout |-> conn[r].timeout]
           h == [hist[r] EXCEPT !.execs = Append(@, ran)]
       IN  \/ /\ pc' = [pc EXCEPT ![r] = "exit_with"]
              /\ hist' = [hist EXCEPT ![r] = h]
              /\ UNCHANGED <<conn, response>>
           \/ /\ Fail(r)
              /\ hist' = [hist EXCEPT ![r] = [Bump(h, "closed") EXCEPT !.failed = "execute"]]
    /\ UNCHANGED <<sql, genout, served, sanVars, genVars>>

\* the with block ends normally
LeaveWith(r) ==
    /\ pc[r] = "exit_with"
    /\ conn' = [conn EXCEPT ![r] = ExitWith(@)]
    /\ hist' = [hist EXCEPT ![r] = Bump(@, "closed")]
    /\ pc' = [pc EXCEPT ![r] = "return"]
    /\ UNCHANGED <<sql, genout, response, served, sanVars, genVars>>

\* return {"question": ..., "sql": sql, "columns": cols, "rows": rows}
ReturnRows(r) ==
    /\ pc[r] = "return"
    /\ response' = [response EXCEPT ![r] = [status |-> 200, detail |-> "", sql |-> sql[r]]]
    /\ pc' = [pc EXCEPT ![r] = "done"]
    /\ UNCHANGED <<sql, genout, conn, hist, served, sanVars, genVars>>

\* the response is sent, the handler's frame is gone and the worker is free
Finish(r) ==
    /\ pc[r] = "done"
    /\ pc' = [pc EXCEPT ![r] = "idle"]
    /\ sql' = [sql EXCEPT ![r] = None]
    /\ genout' = [genout EXCEPT ![r] = None]
    /\ response' = [response EXCEPT ![r] = NoResponse]
    /\ hist' = [hist EXCEPT ![r] = NoHist]
    /\ UNCHANGED <<conn, served, sanVars, genVars>>

Init == SanIdle /\ GenIdle /\ NlqIdle

Next ==
    \E r \in Requests :
        \/ Receive(r)
        \/ LlmReturns(r)
        \/ LlmFails(r)
        \/ SanitizeStep(r)
        \/ Connect(r)
        \/ SetReadOnly(r)
        \/ Execute(r)
        \/ LeaveWith(r)
        \/ ReturnRows(r)
        \/ Finish(r)

Spec == Init /\ [][Next]_vars

-----------------------------------------------------------------------------
(* The vocabulary of the properties, stated apart from the code's own      *)
(* regular expressions.                                                    *)

BlockedKeywords == {"insert", "update", "delete", "drop", "alter", "truncate",
                    "create", "grant", "revoke"}

\* w (lower case, made of word characters) stands at position i of s as a
\* whole word, in any letter casing
WordAt(s, i, w) ==
    /\ i + Len(w) - 1 <= Len(s)
    /\ ToLower(SubSeq(s, i, i + Len(w) - 1)) = w
    /\ (i = 1 \/ SubSeq(s, i - 1, i - 1) \notin WordChars)
    /\ (i + Len(w) > Len(s) \/ SubSeq(s, i + Len(w), i + Len(w)) \notin WordChars)

WordPositions(s, w) == { i \in 1..Len(s) : WordAt(s, i, w) }

ContainsWord(s, w) == WordPositions(s, w) # {}
ContainsBlocked(s) == \E w \in BlockedKeywords : ContainsWord(s, w)

EndsWith(s, t) == Len(t) <= Len(s) /\ SubSeq(s, Len(s) - Len(t) + 1, Len(s)) = t

Cap == " LIMIT 500"
BeforeCap(s) == SubSeq(s, 1, Len(s) - Len(Cap))

\* a limit clause at position i: the keyword, the white space after it and
\* the digits of its value
RECURSIVE SpanOf(_, _, _)
SpanOf(s, i, class) ==
    IF i <= Len(s) /\ SubSeq(s, i, i) \in class THEN SpanOf(s, i + 1, class) ELSE i

LimitClauseAt(s, i) == SubSeq(s, i, SpanOf(s, SpanOf(s, i + 5, WhiteSpace), DigitChars) - 1)
LimitClauses(s) == { LimitClauseAt(s, i) : i \in WordPositions(s, "limit") }

SanRan == phase # "input"

-----------------------------------------------------------------------------
(* C1: a raw string that holds a blocked keyword as a whole word, in any   *)
(* casing and position, with or without a SELECT beside it, is rejected    *)
(* with the unsafe-SQL error (400) and no SQL is returned.                 *)
C1_BlockedKeywordRejected ==
    (SanRan /\ ContainsBlocked(raw)) =>
        (~res.ok /\ res.status = 400 /\ res.detail = UnsafeDetail /\ res.sql = "")

\* a keyword inside a string literal of a query that also holds SELECT
C1_Witness ==
    /\ phase = "done" /\ ContainsBlocked(raw) /\ ContainsWord(raw, "select")
    /\ \E i \in 2..Len(raw) : SubSeq(raw, i - 1, i - 1) = "'"
                              /\ \E w \in BlockedKeywords : WordAt(raw, i, w)
    /\ res.detail = UnsafeDetail

(* C2, as stated: every raw string without a whole-word SELECT is rejected *)
(* with the only-SELECT error.                                             *)
C2_NoSelectIsInvalidSql ==
    (SanRan /\ ~ContainsWord(raw, "select")) =>
        (~res.ok /\ res.detail = InvalidDetail)

(* C2, amended: a raw string without a whole-word SELECT is always         *)
(* rejected with status 400: with the only-SELECT error when it holds no   *)
(* blocked keyword, with the unsafe-SQL error when it holds one.           *)
C2_NoSelectRejected ==
    (SanRan /\ ~ContainsWord(raw, "select")) =>
        /\ ~res.ok /\ res.status = 400 /\ res.sql = ""
        /\ res.detail = IF ContainsBlocked(raw) THEN UnsafeDetail ELSE InvalidDetail

\* select inside a longer word, and no blocked keyword
C2_Witness ==
    /\ phase = "done" /\ ~ContainsWord(raw, "select") /\ ~ContainsBlocked(raw)
    /\ \E i \in 1..Len(raw) : MatchAt(raw, i, "selectx")
    /\ res.detail = InvalidDetail

(* C3: every string sanitize_sql returns holds no blocked keyword as a     *)
(* whole word, holds a whole-word SELECT and holds a whole-word LIMIT.     *)
C3_SanitizedSql ==
    (SanRan /\ res.ok) =>
        /\ ~ContainsBlocked(res.sql)
        /\ ContainsWord(res.sql, "select")
        /\ ContainsWord(res.sql, "limit")

(* C4: for an accepted raw string with no whole-word LIMIT the output ends *)
(* with the cap LIMIT 500, holds LIMIT exactly once, and the text before   *)
(* the cap is the normalized input stripped of its surrounding white space *)
(* and then of its trailing semicolons.                                    *)
C4_CapAppended ==
    (SanRan /\ res.ok /\ ~ContainsWord(raw, "limit")) =>
        /\ EndsWith(res.sql, Cap)
        /\ Cardinality(WordPositions(res.sql, "limit")) = 1
        /\ BeforeCap(res.sql) = RStripSemi(Strip(ApplyFixes(raw, 1)))
        /\ ~EndsWith(BeforeCap(res.sql), ";")

(* C5: for an accepted raw string that holds a whole-word LIMIT no cap is  *)
(* appended: the output is the input with the identifier fixes applied and *)
(* nothing else, and every limit clause of the input (keyword, white       *)
(* space, digits) stands in the output as it was.                          *)
C5_ExplicitLimitKept ==
    (SanRan /\ res.ok /\ ContainsWord(raw, "limit")) =>
        /\ res.sql = ApplyFixes(raw, 1)
        /\ LimitClauses(raw) \subseteq LimitClauses(res.sql)
        /\ Cardinality(WordPositions(res.sql, "limit"))
             >= Cardinality(WordPositions(raw, "limit"))

\* an explicit limit with a value, and an identifier that was rewritten
C5_Witness ==
    /\ phase = "done" /\ res.ok /\ res.sql # raw
    /\ \E c \in LimitClauses(raw) : Len(c) > 6 /\ SubSeq(c, Len(c), Len(c)) \in DigitChars
    /\ ~EndsWith(res.sql, Cap)

(* C6: sanitize_sql is idempotent on what it accepts: a second run on its  *)
(* own output succeeds and returns that output unchanged.                  *)
C6_Idempotent ==
    (phase = "again") => (res2.ok /\ res2.sql = res.sql)

-----------------------------------------------------------------------------
GenRan == generated # None

\* the completion carries no fence of its own at either end
Unfenced(c) ==
    /\ ~c.fenced
    /\ ~MatchAt(Strip(c.body), 1, Fence)
    /\ ~EndsWith(Strip(c.body), Fence)

(* C8: llm_generate_sql removes the fence delimiters and nothing else: a   *)
(* completion made of an opening fence, an optional alphabetic tag, the    *)
(* text S and a closing fence yields S trimmed, whether or not white space *)
(* separates the opening fence or tag from S, backticks inside S are kept, *)
(* and a completion without fences is returned trimmed.                    *)
C8_OnlyFencesRemoved ==
    GenRan =>
        /\ completion.fenced => generated = Strip(completion.body)
        /\ Unfenced(completion) => generated = Strip(Content(completion))

-----------------------------------------------------------------------------
Executed(r) == { hist[r].execs[i] : i \in 1..Len(hist[r].execs) }

(* C7: within a request the stages run in the order generate, sanitize,    *)
(* execute, each at most once; the only statement sent to the database is  *)
(* what a successful sanitize_sql returned for that request's generator    *)
(* output; when the generator fails or sanitize_sql rejects, no connection *)
(* is attempted, nothing is executed and the request ends with that        *)
(* stage's error.                                                          *)
C7_PipelineOrder ==
    \A r \in Requests :
        LET h == hist[r] IN
        /\ h.gen <= 1 /\ h.san <= 1 /\ h.connects <= 1 /\ Len(h.execs) <= 1
        /\ h.san = 1 => (h.gen = 1 /\ genout[r] # None /\ h.sanIn = genout[r])
        /\ h.connects = 1 => (h.san = 1 /\ h.sanOut.ok)
        /\ h.execs # <<>> => h.opened = 1
        /\ \A e \in Executed(r) : h.sanOut.ok /\ e.sql = h.sanOut.sql
        /\ h.failed \in {"generate", "sanitize"} =>
              /\ h.connects = 0 /\ h.opened = 0 /\ h.execs = <<>>
              /\ pc[r] = "done"
              /\ h.failed = "generate" => (h.san = 0 /\ response[r].status = 500)
              /\ h.failed = "sanitize" =>
                    (response[r].status = 400
                     /\ response[r].detail \in {UnsafeDetail, InvalidDetail})

\* one request ran its sanitized statement while another, whose generator
\* answered with white space only, was rejected by the shape guard
C7_Witness ==
    \E r, q \in Requests :
        /\ pc[r] = "done" /\ response[r].status = 200 /\ Len(hist[r].execs) = 1
        /\ genout[r] = "SELECT vendorid"
        /\ hist[r].execs[1].sql = "SELECT \"vendorId\" LIMIT 500"
        /\ pc[q] = "done" /\ genout[q] = "" /\ response[q].detail = InvalidDetail
        /\ hist[q].connects = 0

(* C9: whenever the generated statement runs, its connection is already    *)
(* read-only and carries the 8000 ms statement timeout; when setting       *)
(* read-only failed, the statement never runs.                             *)
C9_ReadOnlyBeforeRun ==
    \A r \in Requests :
        /\ \A e \in Executed(r) : e.readOnly /\ e.timeout = 8000
        /\ pc[r] \in {"execute", "exit_with"} =>
              (conn[r].open /\ conn[r].readOnly /\ conn[r].timeout = 8000)
        /\ hist[r].failed = "set_read_only" => hist[r].execs = <<>>

\* one request ran its statement, another failed to become read-only
C9_Witness ==
    \E r, q \in Requests :
        /\ Len(hist[r].execs) = 1 /\ hist[r].execs[1].readOnly
        /\ hist[q].failed = "set_read_only" /\ pc[q] = "done"

(* C10: a connection is open only while its request is inside the with     *)
(* block; on every way out of the execution step (success, failed          *)
(* connect, failed read-only setup, failed or timed-out statement) it has  *)
(* been closed, and a failure there ends the request with the 400 SQL      *)
(* error; a finished request leaves its worker free for the next one.      *)
C10_ConnectionsReleased ==
    \A r \in Requests :
        /\ conn[r].open <=> pc[r] \in {"set_read_only", "execute", "exit_with"}
        /\ pc[r] \in {"idle", "done", "return"} => hist[r].closed = hist[r].opened
        /\ hist[r].failed \in {"connect", "set_read_only", "execute"} =>
              /\ response[r] = HTTPException(400, SqlErrorDetail)
              /\ pc[r] = "done"
        /\ pc[r] = "done" => (response[r].status \in {200, 400, 500} /\ ENABLED Finish(r))
        /\ (pc[r] = "idle" /\ served < MaxServed) => ENABLED Receive(r)

\* a statement failed on an open connection, the connection is closed, and
\* the other worker is serving a later request
C10_Witness ==
    \E r, q \in Requests :
        /\ pc[r] = "done" /\ hist[r].failed = "execute"
        /\ hist[r].opened = 1 /\ hist[r].closed = 1 /\ ~conn[r].open
        /\ conn[q].open /\ served = MaxServed

====
